---- MODULE Spec2Model ----
(***************************************************************************)
(* Model of tools/compliance_checker.py: the profile detector, the check   *)
(* executors, the RepoReport aggregate, check_repository, scan_directory,  *)
(* init_repository and the version comparator.                             *)
(*                                                                         *)
(* Text is modelled structurally: a version string is a sequence of        *)
(* one-character strings, a check name "a:b:c" is the sequence of its      *)
(* ':'-separated parts, a URL is the sequence of its '/'-separated parts,  *)
(* and the text of LICENSE / CLAUDE.md / the git hook is a sequence of     *)
(* lines, each a sequence of words.                                        *)
(***************************************************************************)
EXTENDS Integers, Sequences, FiniteSets, TLC

VARIABLES
    repo_name,   \* repo_path.name of the repository under check
    fs,          \* the repository's files: path -> content record (kind "absent" when missing)
    pc,          \* position of the run: "setup", "checked", "removed", "rechecked", ...
    edits,       \* number of changes the environment made to the repository during setup
    profile,     \* RepoReport.profile ("none" before a report exists)
    checks,      \* RepoReport.checks
    base,        \* summary of the previous report, kept when a required file is removed
    v1,          \* first argument of _compare_versions
    v2,          \* second argument of _compare_versions
    cmp,         \* outcome of the last _compare_versions call
    dir_entries, \* the directory given to scan_directory: entry name -> entry record
    scan,        \* outcome of the last scan_directory call
    before,      \* the files as they were when init_repository was last called
    init_log     \* one record per init_repository call: what it created and skipped

vars == <<repo_name, fs, pc, edits, profile, checks, base, v1, v2, cmp, dir_entries, scan, before, init_log>>

(***************************************************************************)
(* VersionComparator                                                       *)
(***************************************************************************)

\* Characters on which str.isdigit() is True and int() parses them.
AsciiDigits == {"0", "1", "2", "3", "4", "5", "6", "7", "8", "9"}

\* Characters on which str.isdigit() is True but int() raises ValueError
\* (SUPERSCRIPT TWO, written "^2" here).
SuperDigits == {"^2"}

DigitValue(c) ==
    CASE c = "0" -> 0 [] c = "1" -> 1 [] c = "2" -> 2 [] c = "3" -> 3
      [] c = "4" -> 4 [] c = "5" -> 5 [] c = "6" -> 6 [] c = "7" -> 7
      [] c = "8" -> 8 [] c = "9" -> 9

\* re.split(r"[.\-]", v): the tokens between separators, empty tokens kept.
RECURSIVE SplitFrom(_, _, _, _)
SplitFrom(s, i, cur, acc) ==
    IF i > Len(s) THEN Append(acc, cur)
    ELSE IF s[i] \in {".", "-"} THEN SplitFrom(s, i + 1, <<>>, Append(acc, cur))
    ELSE SplitFrom(s, i + 1, Append(cur, s[i]), acc)

SplitVersion(s) == SplitFrom(s, 1, <<>>, <<>>)

\* str.isdigit(): non-empty and every character a digit character.
IsDigit(tok) ==
    /\ Len(tok) > 0
    /\ \A i \in 1..Len(tok) : tok[i] \in AsciiDigits \cup SuperDigits

\* int(x) succeeds exactly on the tokens made of decimal digits.
IntParses(tok) == Len(tok) > 0 /\ \A i \in 1..Len(tok) : tok[i] \in AsciiDigits

RECURSIVE IntFrom(_, _, _)
IntFrom(tok, i, acc) ==
    IF i > Len(tok) THEN acc ELSE IntFrom(tok, i + 1, acc * 10 + DigitValue(tok[i]))

IntOf(tok) == IntFrom(tok, 1, 0)

\* [int(x) for x in re.split(...) if x.isdigit()]; raises when int(x) does.
DigitTokens(s) == SelectSeq(SplitVersion(s), IsDigit)

PartsRaise(s) == \E i \in 1..Len(DigitTokens(s)) : ~IntParses(DigitTokens(s)[i])

Parts(s) == [i \in 1..Len(DigitTokens(s)) |-> IntOf(DigitTokens(s)[i])]

\* parts.extend([0] * (max_len - len(parts)))
Pad(p, n) == [i \in 1..n |-> IF i <= Len(p) THEN p[i] ELSE 0]

Max(a, b) == IF a >= b THEN a ELSE b

\* the zip loop: the sign of the first differing pair, 0 when there is none.
RECURSIVE CompareFrom(_, _, _)
CompareFrom(p1, p2, i) ==
    IF i > Len(p1) THEN 0
    ELSE IF p1[i] < p2[i] THEN -1
    ELSE IF p1[i] > p2[i] THEN 1
    ELSE CompareFrom(p1, p2, i + 1)

\* _compare_versions: [exc |-> "ValueError"] when building a part list raises,
\* otherwise [exc |-> "none", ret |-> -1 | 0 | 1].
_compare_versions(a, b) ==
    IF PartsRaise(a) \/ PartsRaise(b) THEN [exc |-> "ValueError", ret |-> 0]
    ELSE LET max_len == Max(Len(Parts(a)), Len(Parts(b)))
         IN  [exc |-> "none",
              ret |-> CompareFrom(Pad(Parts(a), max_len), Pad(Parts(b), max_len), 1)]

\* variant: the 'v' prefix is not stripped
LStripVNotStripped(s) == s

\* str.lstrip("v"): every leading 'v' is removed.
RECURSIVE LStripV(_)
LStripV(s) == IF Len(s) > 0 /\ s[1] = "v" THEN LStripV(Tail(s)) ELSE s

(***************************************************************************)
(* Policy tables                                                           *)
(***************************************************************************)

PROFILE_PYTHON == "python"
PROFILE_STATIC_SITE == "static_site"
PROFILE_DOCUMENTATION == "documentation"
PROFILE_ORG_CONFIG == "org_config"

Profiles == {PROFILE_PYTHON, PROFILE_STATIC_SITE, PROFILE_DOCUMENTATION, PROFILE_ORG_CONFIG}

PROFILE_INDICATORS(p) ==
    CASE p = PROFILE_PYTHON ->
            <<"pyproject.toml", "setup.py", "setup.cfg", "requirements.txt", "Pipfile">>
      [] p = PROFILE_STATIC_SITE -> <<"index.html", "package.json">>
      [] p = PROFILE_DOCUMENTATION -> <<>>
      [] p = PROFILE_ORG_CONFIG -> <<".github">>

REQUIRED_FILES_BY_PROFILE(p) ==
    CASE p = PROFILE_PYTHON ->
            <<"CLAUDE.md", "LICENSE", "README.md", ".pre-commit-config.yaml", ".gitignore">>
      [] p = PROFILE_STATIC_SITE -> <<"CLAUDE.md", "LICENSE", "README.md", ".gitignore">>
      [] p = PROFILE_DOCUMENTATION -> <<"LICENSE", "README.md">>
      [] p = PROFILE_ORG_CONFIG -> <<"LICENSE", "README.md">>

CI_REQUIRED_BY_PROFILE(p) == p = PROFILE_PYTHON

\* variant: the documentation entry of the table is True
PRECOMMIT_REQUIRED_BY_PROFILEDocs(p) == p \in {PROFILE_PYTHON, PROFILE_DOCUMENTATION}

PRECOMMIT_REQUIRED_BY_PROFILE(p) == p = PROFILE_PYTHON

\* (section name, regex): the regex "(?i)#.*project.*overview|#.*overview" is kept
\* as its alternatives, each the keywords that must follow a '#' on one line.
SECTION_OVERVIEW ==
    [section_name |-> <<"Project", "Overview">>,
     pattern |-> <<(<<"project", "overview">>), (<<"overview">>)>>]

SECTION_COMMANDS ==
    [section_name |-> <<"Common", "Commands">>,
     pattern |-> <<(<<"common", "commands">>), (<<"commands">>)>>]

CLAUDE_MD_SECTIONS_BY_PROFILE(p) ==
    CASE p = PROFILE_PYTHON -> <<SECTION_OVERVIEW, SECTION_COMMANDS>>
      [] p = PROFILE_STATIC_SITE -> <<SECTION_OVERVIEW>>
      [] OTHER -> <<>>

CI_WORKFLOW_FILES == <<".github/workflows/ci.yml">>

\* A URL is the sequence of its '/'-separated parts.
URL_HOOKS == <<"https:", "", "github.com", "pre-commit", "pre-commit-hooks">>
URL_BLACK == <<"https:", "", "github.com", "psf", "black">>
URL_RUFF == <<"https:", "", "github.com", "astral-sh", "ruff-pre-commit">>
URL_MYPY == <<"https:", "", "github.com", "pre-commit", "mirrors-mypy">>
URL_BANDIT == <<"https:", "", "github.com", "PyCQA", "bandit">>

\* REQUIRED_PRECOMMIT_HOOKS, in the dict's insertion order.
REQUIRED_PRECOMMIT_HOOKS ==
    << [repo_url |-> URL_HOOKS,
        hook_ids |-> <<"trailing-whitespace", "end-of-file-fixer", "check-yaml",
                       "check-added-large-files">>],
       [repo_url |-> URL_BLACK, hook_ids |-> <<"black">>],
       [repo_url |-> URL_RUFF, hook_ids |-> <<"ruff">>],
       [repo_url |-> URL_MYPY, hook_ids |-> <<"mypy">>],
       [repo_url |-> URL_BANDIT, hook_ids |-> <<"bandit">> ] >>

\* MIN_HOOK_VERSIONS, in the dict's insertion order.
MIN_HOOK_VERSIONS ==
    << [repo_url |-> URL_BLACK, min_version |-> <<"2", "4", ".", "0", ".", "0">>],
       [repo_url |-> URL_RUFF, min_version |-> <<"v", "0", ".", "1", ".", "0">>] >>

LICENSE_PATTERNS ==
    << <<"GNU", "GENERAL", "PUBLIC", "LICENSE">>, <<"Version", "3,">> >>

(***************************************************************************)
(* Files: fs maps a path to a content record.                              *)
(*   [kind |-> "absent"]                the path does not exist            *)
(*   [kind |-> "file"]                  a file whose content is never read *)
(*   [kind |-> "dir"]                   a directory                        *)
(*   [kind |-> "text", lines |-> ..]    readable text                      *)
(*   [kind |-> "unreadable"]            reading it raises                  *)
(*   [kind |-> "yaml_error"]            yaml.safe_load raises YAMLError    *)
(*   [kind |-> "yaml_empty"]            the document loads as None         *)
(*   [kind |-> "yaml_no_repos"]         a mapping without a "repos" key    *)
(*   [kind |-> "yaml_repos", repos |-> ..]  a mapping with a repos list    *)
(***************************************************************************)

Absent == [kind |-> "absent"]
PlainFile == [kind |-> "file"]
Directory == [kind |-> "dir"]
Unreadable == [kind |-> "unreadable"]
Text(lines) == [kind |-> "text", lines |-> lines]

GIT_DIR == ".git"
HOOK_PATH == ".git/hooks/pre-commit"
CONFIG_PATH == ".pre-commit-config.yaml"

\* Path.exists()
Exists(root, path) == root[path].kind # "absent"

\* a literal pattern (a run of words) occurs in one line
LineHas(line, pat) ==
    \E i \in 0..(Len(line) - Len(pat)) : \A j \in 1..Len(pat) : line[i + j] = pat[j]

\* re.search(literal, content)
SearchLiteral(lines, pat) == \E l \in 1..Len(lines) : LineHas(lines[l], pat)

\* str.lower() on the words the model uses
Lower(w) ==
    CASE w = "Project" -> "project" [] w = "PROJECT" -> "project"
      [] w = "Overview" -> "overview" [] w = "OVERVIEW" -> "overview"
      [] w = "Common" -> "common" [] w = "Commands" -> "commands"
      [] w = "COMMANDS" -> "commands"
      [] OTHER -> w

\* the keywords kws[k..] occur in this order at positions >= i of the line (".*" between)
RECURSIVE KeywordsFrom(_, _, _, _)
KeywordsFrom(line, i, kws, k) ==
    IF k > Len(kws) THEN TRUE
    ELSE \E j \in i..Len(line) :
            Lower(line[j]) = kws[k] /\ KeywordsFrom(line, j + 1, kws, k + 1)

\* re.search("(?i)#.*a.*b|#.*b", content): '.' does not cross a line break
SearchHeading(lines, pattern) ==
    \E a \in 1..Len(pattern) : \E l \in 1..Len(lines) : \E i \in 1..Len(lines[l]) :
        lines[l][i] = "#" /\ KeywordsFrom(lines[l], i + 1, pattern[a], 1)

(***************************************************************************)
(* CheckResult and RepoReport                                              *)
(***************************************************************************)

NoFix == "None"

\* CheckResult(name, passed, message, severity="error", fix_command=None);
\* name is the sequence of the ':'-separated parts; the message is not modelled.
CheckResult(name, passed, severity, fix_command) ==
    [name |-> name, passed |-> passed, severity |-> severity, fix_command |-> fix_command]

Passed(name) == CheckResult(name, TRUE, "error", NoFix)
Failed(name, severity) == CheckResult(name, FALSE, severity, NoFix)

RECURSIVE CountIf(_, _)
CountIf(cs, want) ==
    IF cs = <<>> THEN 0
    ELSE (IF Head(cs).passed = want THEN 1 ELSE 0) + CountIf(Tail(cs), want)

\* variant: equal results are counted once
passed_countDistinct(cs) == Cardinality({cs[i] : i \in {j \in DOMAIN cs : cs[j].passed}})

passed_count(cs) == CountIf(cs, TRUE)

failed_count(cs) == CountIf(cs, FALSE)

total_count(cs) == Len(cs)

RECURSIVE Gcd(_, _)
Gcd(a, b) == IF b = 0 THEN a ELSE Gcd(b, a % b)

\* an exact fraction in lowest terms (the float arithmetic is modelled exactly)
Fraction(n, d) == [num |-> n \div Gcd(n, d), den |-> d \div Gcd(n, d)]

score_percent(cs) ==
    IF total_count(cs) = 0 THEN Fraction(0, 1)
    ELSE Fraction(passed_count(cs) * 100, total_count(cs))

\* variant: every failed check counts, whatever its severity
is_compliantAnySeverity(cs) == \A i \in 1..Len(cs) : cs[i].passed

is_compliant(cs) == \A i \in 1..Len(cs) : cs[i].severity = "error" => cs[i].passed

(***************************************************************************)
(* Check executors                                                         *)
(***************************************************************************)

\* variant: a missing file is reported as a warning
RequiredFilesFromWarning(root, required_files, i) ==
    [k \in 1..Len(required_files) |->
        IF Exists(root, required_files[k])
        THEN Passed(<<"file", required_files[k]>>)
        ELSE Failed(<<"file", required_files[k]>>, "warning")]

RECURSIVE RequiredFilesFrom(_, _, _)
RequiredFilesFrom(root, required_files, i) ==
    IF i > Len(required_files) THEN <<>>
    ELSE LET filename == required_files[i]
         IN  << IF Exists(root, filename)
                THEN Passed(<<"file", filename>>)
                ELSE Failed(<<"file", filename>>, "error") >>
             \o RequiredFilesFrom(root, required_files, i + 1)

check_required_files(root, prof) ==
    RequiredFilesFrom(root, REQUIRED_FILES_BY_PROFILE(prof), 1)

\* variant: a project without pyproject.toml and setup.py is a warning
check_python_project_filesWarning(root) ==
    IF Exists(root, "pyproject.toml") THEN << Passed(<<"python", "pyproject.toml">>) >>
    ELSE IF Exists(root, "setup.py")
         THEN << CheckResult(<<"python", "setup.py">>, TRUE, "warning", NoFix) >>
    ELSE << Failed(<<"python", "project_config">>, "warning") >>

check_python_project_files(root) ==
    IF Exists(root, "pyproject.toml") THEN << Passed(<<"python", "pyproject.toml">>) >>
    ELSE IF Exists(root, "setup.py")
         THEN << CheckResult(<<"python", "setup.py">>, TRUE, "warning", NoFix) >>
    ELSE << Failed(<<"python", "project_config">>, "error") >>

RECURSIVE CiWorkflowsFrom(_, _)
CiWorkflowsFrom(root, i) ==
    IF i > Len(CI_WORKFLOW_FILES) THEN <<>>
    ELSE LET workflow_path == CI_WORKFLOW_FILES[i]
         IN  << IF Exists(root, workflow_path)
                THEN Passed(<<"ci", workflow_path>>)
                ELSE Failed(<<"ci", workflow_path>>, "error") >>
             \o CiWorkflowsFrom(root, i + 1)

check_ci_workflows(root) == CiWorkflowsFrom(root, 1)

\* variant: any(...) instead of all(...)
is_gpl3Any(lines) ==
    \E k \in 1..Len(LICENSE_PATTERNS) : SearchLiteral(lines, LICENSE_PATTERNS[k])

\* all(re.search(pattern, content) for pattern in LICENSE_PATTERNS)
is_gpl3(lines) ==
    \A k \in 1..Len(LICENSE_PATTERNS) : SearchLiteral(lines, LICENSE_PATTERNS[k])

\* variant: no early return when LICENSE is missing (the read then fails)
check_licenseNoEarlyReturn(root) ==
    IF root["LICENSE"].kind # "text" THEN << Failed(<<"license", "readable">>, "error") >>
    ELSE IF is_gpl3(root["LICENSE"].lines) THEN << Passed(<<"license", "gpl3">>) >>
    ELSE << Failed(<<"license", "gpl3">>, "error") >>

check_license(root) ==
    IF ~Exists(root, "LICENSE") THEN <<>>
    ELSE IF root["LICENSE"].kind # "text" THEN << Failed(<<"license", "readable">>, "error") >>
    ELSE IF is_gpl3(root["LICENSE"].lines) THEN << Passed(<<"license", "gpl3">>) >>
    ELSE << Failed(<<"license", "gpl3">>, "error") >>

\* repo_url.split('/')[-1]
UrlTail(repo_url) == repo_url[Len(repo_url)]

\* configured_hooks / configured_versions: a later entry of the same URL overwrites
Configured(repos, repo_url) == \E i \in 1..Len(repos) : repos[i].repo = repo_url

LastEntry(repos, repo_url) ==
    repos[CHOOSE i \in 1..Len(repos) :
            /\ repos[i].repo = repo_url
            /\ \A j \in (i + 1)..Len(repos) : repos[j].repo # repo_url]

InSeq(x, xs) == \E i \in 1..Len(xs) : xs[i] = x

\* variant: a hook that is not configured is reported as a warning
HookIdsFromWarning(configured, required_hook_ids, i) ==
    [k \in 1..Len(required_hook_ids) |->
        IF InSeq(required_hook_ids[k], configured)
        THEN Passed(<<"precommit", "hook", required_hook_ids[k]>>)
        ELSE Failed(<<"precommit", "hook", required_hook_ids[k]>>, "warning")]

RECURSIVE HookIdsFrom(_, _, _)
HookIdsFrom(configured, required_hook_ids, i) ==
    IF i > Len(required_hook_ids) THEN <<>>
    ELSE LET hook_id == required_hook_ids[i]
         IN  << IF InSeq(hook_id, configured)
                THEN Passed(<<"precommit", "hook", hook_id>>)
                ELSE Failed(<<"precommit", "hook", hook_id>>, "error") >>
             \o HookIdsFrom(configured, required_hook_ids, i + 1)

\* the "Check required hooks" loop
RECURSIVE RequiredHooksFrom(_, _)
RequiredHooksFrom(repos, i) ==
    IF i > Len(REQUIRED_PRECOMMIT_HOOKS) THEN <<>>
    ELSE LET req == REQUIRED_PRECOMMIT_HOOKS[i]
         IN  (IF ~Configured(repos, req.repo_url)
              THEN << Failed(<<"precommit", "repo", UrlTail(req.repo_url)>>, "error") >>
              ELSE HookIdsFrom(LastEntry(repos, req.repo_url).hooks, req.hook_ids, 1))
             \o RequiredHooksFrom(repos, i + 1)

\* variant: "> 0" instead of ">= 0"
VersionResultStrict(repo_url, current_version, min_version) ==
    LET c == _compare_versions(LStripV(current_version), LStripV(min_version))
    IN  IF c.exc = "ValueError" THEN <<>>
        ELSE IF c.ret > 0 THEN << Passed(<<"precommit", "version", UrlTail(repo_url)>>) >>
        ELSE << CheckResult(<<"precommit", "version", UrlTail(repo_url)>>, FALSE,
                            "warning", "pre-commit autoupdate") >>

\* variant: a version below the minimum is an error without fix command
VersionResultError(repo_url, current_version, min_version) ==
    LET c == _compare_versions(LStripV(current_version), LStripV(min_version))
    IN  IF c.exc = "ValueError" THEN <<>>
        ELSE IF c.ret >= 0 THEN << Passed(<<"precommit", "version", UrlTail(repo_url)>>) >>
        ELSE << Failed(<<"precommit", "version", UrlTail(repo_url)>>, "error") >>

\* one iteration of the "Check minimum versions" loop for a configured URL whose rev
\* is a string: a pass, a failing warning, or nothing when the comparison raises
VersionResult(repo_url, current_version, min_version) ==
    LET c == _compare_versions(LStripV(current_version), LStripV(min_version))
    IN  IF c.exc = "ValueError" THEN <<>>
        ELSE IF c.ret >= 0 THEN << Passed(<<"precommit", "version", UrlTail(repo_url)>>) >>
        ELSE << CheckResult(<<"precommit", "version", UrlTail(repo_url)>>, FALSE,
                            "warning", "pre-commit autoupdate") >>

\* the "Check minimum versions" loop; a rev that is not a string (a YAML number) makes
\* lstrip raise AttributeError, which the outer "except Exception" turns into one
\* precommit:read result and ends the executor
RECURSIVE MinVersionsFrom(_, _)
MinVersionsFrom(repos, i) ==
    IF i > Len(MIN_HOOK_VERSIONS) THEN <<>>
    ELSE LET m == MIN_HOOK_VERSIONS[i]
         IN  IF ~Configured(repos, m.repo_url) THEN MinVersionsFrom(repos, i + 1)
             ELSE IF ~LastEntry(repos, m.repo_url).rev_is_str
                  THEN << Failed(<<"precommit", "read">>, "error") >>
             ELSE VersionResult(m.repo_url, LastEntry(repos, m.repo_url).rev, m.min_version)
                  \o MinVersionsFrom(repos, i + 1)

\* variant: a document without usable "repos" is checked as an empty repos list
check_precommit_configNoReturn(root) ==
    LET config == root[CONFIG_PATH]
    IN  CASE config.kind = "absent" -> <<>>
          [] config.kind = "unreadable" -> << Failed(<<"precommit", "read">>, "error") >>
          [] config.kind = "yaml_error" -> << Failed(<<"precommit", "parse">>, "error") >>
          [] config.kind \in {"yaml_empty", "yaml_no_repos"} ->
                << Failed(<<"precommit", "valid_config">>, "error") >>
                \o RequiredHooksFrom(<<>>, 1) \o MinVersionsFrom(<<>>, 1)
          [] config.kind = "yaml_repos" ->
                RequiredHooksFrom(config.repos, 1) \o MinVersionsFrom(config.repos, 1)

check_precommit_config(root) ==
    LET config == root[CONFIG_PATH]
    IN  CASE config.kind = "absent" -> <<>>
          [] config.kind = "unreadable" -> << Failed(<<"precommit", "read">>, "error") >>
          [] config.kind = "yaml_error" -> << Failed(<<"precommit", "parse">>, "error") >>
          [] config.kind \in {"yaml_empty", "yaml_no_repos"} ->
                << Failed(<<"precommit", "valid_config">>, "error") >>
          [] config.kind = "yaml_repos" ->
                RequiredHooksFrom(config.repos, 1) \o MinVersionsFrom(config.repos, 1)

\* variant: a foreign hook is an error
check_precommit_installedForeignError(root) ==
    IF ~Exists(root, GIT_DIR) THEN << Failed(<<"git", "repository">>, "warning") >>
    ELSE IF ~Exists(root, HOOK_PATH)
         THEN << CheckResult(<<"precommit", "installed">>, FALSE, "error", "pre-commit install") >>
    ELSE IF root[HOOK_PATH].kind # "text"
         THEN << Failed(<<"precommit", "installed">>, "warning") >>
    ELSE IF SearchLiteral(root[HOOK_PATH].lines, <<"pre-commit">>)
         THEN << Passed(<<"precommit", "installed">>) >>
    ELSE << Failed(<<"precommit", "installed">>, "error") >>

check_precommit_installed(root) ==
    IF ~Exists(root, GIT_DIR) THEN << Failed(<<"git", "repository">>, "warning") >>
    ELSE IF ~Exists(root, HOOK_PATH)
         THEN << CheckResult(<<"precommit", "installed">>, FALSE, "error", "pre-commit install") >>
    ELSE IF root[HOOK_PATH].kind # "text"
         THEN << Failed(<<"precommit", "installed">>, "warning") >>
    ELSE IF SearchLiteral(root[HOOK_PATH].lines, <<"pre-commit">>)
         THEN << Passed(<<"precommit", "installed">>) >>
    ELSE << Failed(<<"precommit", "installed">>, "warning") >>

\* section_name.lower().replace(' ', '_')
RECURSIVE Slug(_)
Slug(words) ==
    IF Len(words) = 1 THEN Lower(words[1])
    ELSE Lower(words[1]) \o "_" \o Slug(Tail(words))

\* variant: a missing section is an error
SectionsFromError(lines, sections, i) ==
    [k \in 1..Len(sections) |->
        IF SearchHeading(lines, sections[k].pattern)
        THEN Passed(<<"claude_md", Slug(sections[k].section_name)>>)
        ELSE Failed(<<"claude_md", Slug(sections[k].section_name)>>, "error")]

RECURSIVE SectionsFrom(_, _, _)
SectionsFrom(lines, sections, i) ==
    IF i > Len(sections) THEN <<>>
    ELSE << IF SearchHeading(lines, sections[i].pattern)
            THEN Passed(<<"claude_md", Slug(sections[i].section_name)>>)
            ELSE Failed(<<"claude_md", Slug(sections[i].section_name)>>, "warning") >>
         \o SectionsFrom(lines, sections, i + 1)

\* variant: an unreadable CLAUDE.md is an error
check_claude_md_contentReadableError(root, prof) ==
    IF ~Exists(root, "CLAUDE.md") THEN <<>>
    ELSE IF CLAUDE_MD_SECTIONS_BY_PROFILE(prof) = <<>> THEN <<>>
    ELSE IF root["CLAUDE.md"].kind # "text"
         THEN << Failed(<<"claude_md", "readable">>, "error") >>
    ELSE SectionsFrom(root["CLAUDE.md"].lines, CLAUDE_MD_SECTIONS_BY_PROFILE(prof), 1)

check_claude_md_content(root, prof) ==
    IF ~Exists(root, "CLAUDE.md") THEN <<>>
    ELSE IF CLAUDE_MD_SECTIONS_BY_PROFILE(prof) = <<>> THEN <<>>
    ELSE IF root["CLAUDE.md"].kind # "text"
         THEN << Failed(<<"claude_md", "readable">>, "warning") >>
    ELSE SectionsFrom(root["CLAUDE.md"].lines, CLAUDE_MD_SECTIONS_BY_PROFILE(prof), 1)

(***************************************************************************)
(* Profile detection and the orchestrator                                  *)
(***************************************************************************)

AnyExists(root, indicators) ==
    \E i \in 1..Len(indicators) : Exists(root, indicators[i])

\* variant: the static-site indicators are tried before the Python ones
detect_profileStaticFirst(name, root) ==
    IF name = ".github" THEN PROFILE_ORG_CONFIG
    ELSE IF AnyExists(root, PROFILE_INDICATORS(PROFILE_STATIC_SITE)) THEN PROFILE_STATIC_SITE
    ELSE IF AnyExists(root, PROFILE_INDICATORS(PROFILE_PYTHON)) THEN PROFILE_PYTHON
    ELSE PROFILE_DOCUMENTATION

detect_profile(name, root) ==
    IF name = ".github" THEN PROFILE_ORG_CONFIG
    ELSE IF AnyExists(root, PROFILE_INDICATORS(PROFILE_PYTHON)) THEN PROFILE_PYTHON
    ELSE IF AnyExists(root, PROFILE_INDICATORS(PROFILE_STATIC_SITE)) THEN PROFILE_STATIC_SITE
    ELSE PROFILE_DOCUMENTATION

\* variant: the CLAUDE.md content check runs before the pre-commit checks
RepositoryChecksClaudeEarly(root, prof) ==
    check_required_files(root, prof)
    \o check_license(root)
    \o (IF CI_REQUIRED_BY_PROFILE(prof) THEN check_ci_workflows(root) ELSE <<>>)
    \o check_claude_md_content(root, prof)
    \o (IF PRECOMMIT_REQUIRED_BY_PROFILE(prof)
        THEN check_precommit_config(root) \o check_precommit_installed(root)
        ELSE <<>>)
    \o (IF prof = PROFILE_PYTHON THEN check_python_project_files(root) ELSE <<>>)

\* the report.checks.extend(...) calls of check_repository, in order
RepositoryChecks(root, prof) ==
    check_required_files(root, prof)
    \o check_license(root)
    \o (IF CI_REQUIRED_BY_PROFILE(prof) THEN check_ci_workflows(root) ELSE <<>>)
    \o (IF PRECOMMIT_REQUIRED_BY_PROFILE(prof)
        THEN check_precommit_config(root) \o check_precommit_installed(root)
        ELSE <<>>)
    \o check_claude_md_content(root, prof)
    \o (IF prof = PROFILE_PYTHON THEN check_python_project_files(root) ELSE <<>>)

(***************************************************************************)
(* The repositories the checker is run on                                  *)
(***************************************************************************)

PlainPaths ==
    {"pyproject.toml", "setup.py", "setup.cfg", "requirements.txt", "Pipfile",
     "index.html", "package.json", "README.md", ".gitignore", ".github/workflows/ci.yml"}

Paths == PlainPaths \cup {"LICENSE", "CLAUDE.md", CONFIG_PATH, GIT_DIR, HOOK_PATH}

RepoNames == {"repo", ".github"}

GPL3_TEXT ==
    << <<"GNU", "GENERAL", "PUBLIC", "LICENSE">>, <<"Version", "3,", "29", "June", "2007">> >>
GPL2_TEXT ==
    << <<"GNU", "GENERAL", "PUBLIC", "LICENSE">>, <<"Version", "2,", "June", "1991">> >>
LOWERCASE_GPL_TEXT ==
    << <<"gnu", "general", "public", "license">>, <<"Version", "3,">> >>
BROKEN_LINE_GPL_TEXT ==
    << <<"GNU", "GENERAL">>, <<"PUBLIC", "LICENSE">>, <<"Version", "3,">> >>

LicenseContents ==
    {Text(GPL3_TEXT), Text(GPL2_TEXT), Text(LOWERCASE_GPL_TEXT), Text(BROKEN_LINE_GPL_TEXT),
     Text(<<>>), Unreadable}

CLAUDE_BOTH ==
    << <<"#", "CLAUDE.md">>, <<"#", "#", "Project", "Overview">>, <<"text">>,
       <<"#", "#", "Common", "Commands">> >>
CLAUDE_OVERVIEW_ONLY == << <<"#", "OVERVIEW">>, <<"Commands", "text">> >>
CLAUDE_NO_HEADINGS == << <<"Overview", "#">>, <<"#", "text">>, <<"Commands">> >>

ClaudeContents ==
    {Text(CLAUDE_BOTH), Text(CLAUDE_OVERVIEW_ONLY), Text(CLAUDE_NO_HEADINGS), Unreadable}

HOOK_INSTALLED == << <<"#!/usr/bin/env", "bash">>, <<"exec", "pre-commit", "hook-impl">> >>
HOOK_FOREIGN == << <<"#!/bin/sh">>, <<"make", "lint">> >>

HookContents == {Text(HOOK_INSTALLED), Text(HOOK_FOREIGN), Unreadable}

\* one entry of the "repos" list: repo.get("repo"), repo.get("rev"), the hook ids;
\* rev_is_str is FALSE when YAML loaded the rev as a number
Entry(repo, rev, hooks) == [repo |-> repo, rev |-> rev, rev_is_str |-> TRUE, hooks |-> hooks]

REV_24_10_0 == <<"2", "4", ".", "1", "0", ".", "0">>
REV_24_0_0 == <<"2", "4", ".", "0", ".", "0">>
REV_23_12_1 == <<"2", "3", ".", "1", "2", ".", "1">>
REV_V0_8_0 == <<"v", "0", ".", "8", ".", "0">>
REV_V0_0_9 == <<"v", "0", ".", "0", ".", "9">>
REV_ABC == <<"a", "b", "c">>
REV_EMPTY == <<>>
REV_SUPER == <<"^2">>

Revs == {REV_24_10_0, REV_24_0_0, REV_23_12_1, REV_V0_8_0, REV_V0_0_9, REV_ABC, REV_EMPTY,
         REV_SUPER}

\* the repos of PRECOMMIT_CONFIG_TEMPLATE
TEMPLATE_REPOS ==
    << Entry(URL_HOOKS, <<"v", "5", ".", "0", ".", "0">>,
             <<"trailing-whitespace", "end-of-file-fixer", "mixed-line-ending", "check-yaml",
               "check-toml", "check-json", "check-added-large-files", "check-case-conflict",
               "check-merge-conflict", "check-ast", "debug-statements">>),
       Entry(URL_BLACK, REV_24_10_0, <<"black">>),
       Entry(URL_RUFF, REV_V0_8_0, <<"ruff">>),
       Entry(URL_MYPY, <<"v", "1", ".", "1", "3", ".", "0">>, <<"mypy">>),
       Entry(URL_BANDIT, <<"1", ".", "7", ".", "1", "0">>, <<"bandit">>),
       Entry(<<"https:", "", "github.com", "codespell-project", "codespell">>,
             <<"v", "2", ".", "3", ".", "0">>, <<"codespell">>) >>

YamlRepos(repos) == [kind |-> "yaml_repos", repos |-> repos]

ConfigContents ==
    {YamlRepos(TEMPLATE_REPOS), YamlRepos(<<>>), [kind |-> "yaml_error"],
     [kind |-> "yaml_empty"], [kind |-> "yaml_no_repos"], Unreadable}

EmptyRepo == [p \in Paths |-> Absent]

StaticRepo ==
    [p \in Paths |->
        CASE p \in {"index.html", "README.md", ".gitignore"} -> PlainFile
          [] p = "LICENSE" -> Text(GPL3_TEXT)
          [] p = "CLAUDE.md" -> Text(CLAUDE_BOTH)
          [] OTHER -> Absent]

CompliantRepo ==
    [p \in Paths |->
        CASE p \in {"pyproject.toml", "README.md", ".gitignore", ".github/workflows/ci.yml"} ->
                PlainFile
          [] p = "LICENSE" -> Text(GPL3_TEXT)
          [] p = "CLAUDE.md" -> Text(CLAUDE_BOTH)
          [] p = CONFIG_PATH -> YamlRepos(TEMPLATE_REPOS)
          [] p = GIT_DIR -> Directory
          [] p = HOOK_PATH -> Text(HOOK_INSTALLED)
          [] OTHER -> Absent]

Fixtures == {EmptyRepo, StaticRepo, CompliantRepo}

\* the repos list with entry i changed to e
SetEntry(repos, i, e) == [repos EXCEPT ![i] = e]

\* the repos list without entry i
DropEntry(repos, i) == [j \in 1..(Len(repos) - 1) |-> IF j < i THEN repos[j] ELSE repos[j + 1]]

\* the hooks list without the id
DropHook(hooks, id) == SelectSeq(hooks, LAMBDA h : h # id)

NoBase == [removed |-> "none", profile |-> "none", checks |-> <<>>]

NoCmp == [exc |-> "not called", ret |-> 0]

NoEntries == <<>>

NoScan == [exc |-> "not called", reports |-> <<>>]

NoBefore == <<>>

MaxEdits == 2

(***************************************************************************)
(* Spec: a repository is prepared, checked, loses a required file and is   *)
(* checked again.                                                          *)
(***************************************************************************)

Init ==
    /\ repo_name = "repo"
    /\ fs \in Fixtures
    /\ pc = "setup"
    /\ edits = 0
    /\ profile = "none"
    /\ checks = <<>>
    /\ base = NoBase
    /\ v1 = <<>>
    /\ v2 = <<>>
    /\ cmp = NoCmp
    /\ dir_entries = NoEntries
    /\ scan = NoScan
    /\ before = NoBefore
    /\ init_log = <<>>

CanEdit == pc = "setup" /\ edits < MaxEdits

Edited(new_fs) ==
    /\ new_fs # fs
    /\ fs' = new_fs
    /\ edits' = edits + 1
    /\ UNCHANGED <<before, init_log, dir_entries, scan, repo_name, pc, profile, checks, base, v1, v2, cmp>>

\* a plain file is created or deleted
ToggleFile(p) ==
    /\ CanEdit
    /\ Edited([fs EXCEPT ![p] = IF Exists(fs, p) THEN Absent ELSE PlainFile])

\* LICENSE, CLAUDE.md or the config file is written or deleted
WriteFile(p, c) ==
    /\ CanEdit
    /\ Edited([fs EXCEPT ![p] = c])

\* git init / rm -rf .git (the hook goes with the directory)
ToggleGit ==
    /\ CanEdit
    /\ Edited(IF Exists(fs, GIT_DIR)
              THEN [fs EXCEPT ![GIT_DIR] = Absent, ![HOOK_PATH] = Absent]
              ELSE [fs EXCEPT ![GIT_DIR] = Directory])

\* the pre-commit hook of an existing .git is written or deleted
WriteHook(c) ==
    /\ CanEdit
    /\ Exists(fs, GIT_DIR)
    /\ Edited([fs EXCEPT ![HOOK_PATH] = c])

\* one entry of an existing repos list is edited
EditEntry(i, e) ==
    /\ CanEdit
    /\ fs[CONFIG_PATH].kind = "yaml_repos"
    /\ i \in 1..Len(fs[CONFIG_PATH].repos)
    /\ Edited([fs EXCEPT ![CONFIG_PATH] = YamlRepos(SetEntry(fs[CONFIG_PATH].repos, i, e))])

\* the rev of an entry of a version-floored URL is rewritten
SetRev(i, r) ==
    /\ fs[CONFIG_PATH].kind = "yaml_repos"
    /\ i \in 1..Len(fs[CONFIG_PATH].repos)
    /\ \E k \in 1..Len(MIN_HOOK_VERSIONS) :
          MIN_HOOK_VERSIONS[k].repo_url = fs[CONFIG_PATH].repos[i].repo
    /\ EditEntry(i, [fs[CONFIG_PATH].repos[i] EXCEPT !.rev = r, !.rev_is_str = TRUE])

\* ... to a YAML number
SetRevNumber(i) ==
    /\ fs[CONFIG_PATH].kind = "yaml_repos"
    /\ i \in 1..Len(fs[CONFIG_PATH].repos)
    /\ \E k \in 1..Len(MIN_HOOK_VERSIONS) :
          MIN_HOOK_VERSIONS[k].repo_url = fs[CONFIG_PATH].repos[i].repo
    /\ EditEntry(i, [fs[CONFIG_PATH].repos[i] EXCEPT !.rev = REV_24_10_0, !.rev_is_str = FALSE])

RemoveHook(i, id) ==
    /\ fs[CONFIG_PATH].kind = "yaml_repos"
    /\ i \in 1..Len(fs[CONFIG_PATH].repos)
    /\ EditEntry(i, [fs[CONFIG_PATH].repos[i] EXCEPT !.hooks = DropHook(@, id)])

RemoveEntry(i) ==
    /\ CanEdit
    /\ fs[CONFIG_PATH].kind = "yaml_repos"
    /\ i \in 1..Len(fs[CONFIG_PATH].repos)
    /\ Edited([fs EXCEPT ![CONFIG_PATH] = YamlRepos(DropEntry(fs[CONFIG_PATH].repos, i))])

\* a second entry for a URL is appended
AddEntry(e) ==
    /\ CanEdit
    /\ fs[CONFIG_PATH].kind = "yaml_repos"
    /\ Edited([fs EXCEPT ![CONFIG_PATH] = YamlRepos(Append(fs[CONFIG_PATH].repos, e))])

Rename(name) ==
    /\ CanEdit
    /\ name # repo_name
    /\ repo_name' = name
    /\ edits' = edits + 1
    /\ UNCHANGED <<before, init_log, dir_entries, scan, fs, pc, profile, checks, base, v1, v2, cmp>>

\* check_repository(repo_path)
CheckRepository ==
    /\ pc \in {"setup", "removed"}
    /\ pc' = (IF pc = "setup" THEN "checked" ELSE "rechecked")
    /\ profile' = detect_profile(repo_name, fs)
    /\ checks' = RepositoryChecks(fs, detect_profile(repo_name, fs))
    /\ edits' = 0
    /\ UNCHANGED <<before, init_log, dir_entries, scan, repo_name, fs, base, v1, v2, cmp>>

\* after a report in which every check passed, one file of the profile's required
\* list is deleted
RemoveRequiredFile(f) ==
    /\ pc = "checked"
    /\ passed_count(checks) = total_count(checks)
    /\ InSeq(f, REQUIRED_FILES_BY_PROFILE(profile))
    /\ Exists(fs, f)
    /\ fs' = [fs EXCEPT ![f] = Absent]
    /\ base' = [removed |-> f, profile |-> profile, checks |-> checks]
    /\ pc' = "removed"
    /\ UNCHANGED <<before, init_log, dir_entries, scan, repo_name, edits, profile, checks, v1, v2, cmp>>

Next ==
    \/ \E p \in PlainPaths : ToggleFile(p)
    \/ \E c \in LicenseContents \cup {Absent} : WriteFile("LICENSE", c)
    \/ \E c \in ClaudeContents \cup {Absent} : WriteFile("CLAUDE.md", c)
    \/ \E c \in ConfigContents \cup {Absent} : WriteFile(CONFIG_PATH, c)
    \/ ToggleGit
    \/ \E c \in HookContents \cup {Absent} : WriteHook(c)
    \/ \E i \in 1..Len(TEMPLATE_REPOS) : \E r \in Revs : SetRev(i, r)
    \/ \E i \in 1..Len(TEMPLATE_REPOS) : SetRevNumber(i)
    \/ \E i \in 1..Len(TEMPLATE_REPOS) : \E id \in {"check-yaml", "black", "ruff"} : RemoveHook(i, id)
    \/ \E i \in 1..Len(TEMPLATE_REPOS) : RemoveEntry(i)
    \/ \E e \in {Entry(URL_BLACK, REV_23_12_1, <<>>), Entry(URL_BANDIT, REV_EMPTY, <<"bandit">>)} :
          AddEntry(e)
    \/ \E name \in RepoNames : Rename(name)
    \/ CheckRepository
    \/ \E f \in Paths : RemoveRequiredFile(f)

Spec == Init /\ [][Next]_vars

(***************************************************************************)
(* SpecDetect: detect_profile on every directory name and every set of     *)
(* indicator files.                                                        *)
(***************************************************************************)

IndicatorPaths ==
    {"pyproject.toml", "setup.py", "setup.cfg", "requirements.txt", "Pipfile",
     "index.html", "package.json"}

InitDetect ==
    /\ repo_name \in RepoNames
    /\ \E present \in SUBSET (IndicatorPaths \cup {"README.md"}) :
          fs = [p \in Paths |-> IF p \in present THEN PlainFile ELSE Absent]
    /\ pc = "detect"
    /\ edits = 0
    /\ profile = "none"
    /\ checks = <<>>
    /\ base = NoBase
    /\ v1 = <<>>
    /\ v2 = <<>>
    /\ cmp = NoCmp
    /\ dir_entries = NoEntries
    /\ scan = NoScan
    /\ before = NoBefore
    /\ init_log = <<>>

\* profile = detect_profile(repo_path)
DetectProfile ==
    /\ pc = "detect"
    /\ profile' = detect_profile(repo_name, fs)
    /\ pc' = "detected"
    /\ UNCHANGED <<before, init_log, dir_entries, scan, repo_name, fs, edits, checks, base, v1, v2, cmp>>

NextDetect == DetectProfile

SpecDetect == InitDetect /\ [][NextDetect]_vars

(***************************************************************************)
(* SpecReport: a RepoReport whose check list grows by arbitrary results.   *)
(***************************************************************************)

MaxChecks == 3

SampleResults ==
    {CheckResult(n, p, s, NoFix) :
        n \in {<<"file", "LICENSE">>, <<"ci", ".github/workflows/ci.yml">>},
        p \in BOOLEAN, s \in {"error", "warning", "info"}}

InitReport ==
    /\ repo_name = "repo"
    /\ fs = EmptyRepo
    /\ pc = "report"
    /\ edits = 0
    /\ profile = PROFILE_PYTHON
    /\ checks = <<>>
    /\ base = NoBase
    /\ v1 = <<>>
    /\ v2 = <<>>
    /\ cmp = NoCmp
    /\ dir_entries = NoEntries
    /\ scan = NoScan
    /\ before = NoBefore
    /\ init_log = <<>>

\* report.checks.append(result)
AppendCheck(c) ==
    /\ pc = "report"
    /\ Len(checks) < MaxChecks
    /\ checks' = Append(checks, c)
    /\ UNCHANGED <<before, init_log, dir_entries, scan, repo_name, fs, pc, edits, profile, base, v1, v2, cmp>>

NextReport == \E c \in SampleResults : AppendCheck(c)

SpecReport == InitReport /\ [][NextReport]_vars

(***************************************************************************)
(* SpecCompare: _compare_versions on bounded version strings, called       *)
(* directly and the way check_precommit_config calls it.                   *)
(***************************************************************************)

MaxLen == 2

Alphabet == {"0", "1", ".", "-", "a", "^2"}

V_0_8_0 == <<"0", ".", "8", ".", "0">>
V_V0_1_0 == <<"v", "0", ".", "1", ".", "0">>
V_1_13_0 == <<"1", ".", "1", "3", ".", "0">>
V_V1_13_0 == <<"v", "1", ".", "1", "3", ".", "0">>

DocumentedVersions ==
    {REV_24_10_0, REV_24_0_0, V_0_8_0, V_V0_1_0, V_1_13_0, V_V1_13_0,
     <<"1", ".", "0">>, <<"1", ".", "0", ".", "0">>, REV_ABC, <<"x", "y", "z">>}

Versions == DocumentedVersions \cup UNION {[1..n -> Alphabet] : n \in 0..MaxLen}

InitCompare ==
    /\ repo_name = "repo"
    /\ fs = EmptyRepo
    /\ pc = "compare"
    /\ edits = 0
    /\ profile = "none"
    /\ checks = <<>>
    /\ base = NoBase
    /\ v1 \in Versions
    /\ v2 \in Versions
    /\ cmp = NoCmp
    /\ dir_entries = NoEntries
    /\ scan = NoScan
    /\ before = NoBefore
    /\ init_log = <<>>

\* _compare_versions(v1, v2)
Compare ==
    /\ pc = "compare"
    /\ cmp' = _compare_versions(v1, v2)
    /\ pc' = "compared"
    /\ UNCHANGED <<before, init_log, dir_entries, scan, repo_name, fs, edits, profile, checks, base, v1, v2>>

\* _compare_versions(current_version.lstrip("v"), min_version.lstrip("v"))
CompareStripped ==
    /\ pc = "compare"
    /\ cmp' = _compare_versions(LStripV(v1), LStripV(v2))
    /\ pc' = "compared_stripped"
    /\ UNCHANGED <<before, init_log, dir_entries, scan, repo_name, fs, edits, profile, checks, base, v1, v2>>

NextCompare == Compare \/ CompareStripped

SpecCompare == InitCompare /\ [][NextCompare]_vars

(***************************************************************************)
(* SpecScan: scan_directory on a directory of files, plain subdirectories  *)
(* and repositories. An entry name is the sequence of its characters.      *)
(***************************************************************************)

\* ord() of the characters the entry names are made of
Ord(c) ==
    CASE c = "." -> 46 [] c = "B" -> 66 [] c = "a" -> 97 [] c = "b" -> 98
      [] c = "g" -> 103 [] c = "h" -> 104 [] c = "i" -> 105 [] c = "t" -> 116
      [] c = "u" -> 117

\* a < b on the names of two entries of one directory (the order of their Paths)
RECURSIVE NameLess(_, _)
NameLess(a, b) ==
    IF b = <<>> THEN FALSE
    ELSE IF a = <<>> THEN TRUE
    ELSE IF Ord(a[1]) # Ord(b[1]) THEN Ord(a[1]) < Ord(b[1])
    ELSE NameLess(Tail(a), Tail(b))

\* sorted(dir_path.iterdir())
RECURSIVE Sorted(_)
Sorted(names) ==
    IF names = {} THEN <<>>
    ELSE LET m == CHOOSE x \in names : \A y \in names \ {x} : NameLess(x, y)
         IN  <<m>> \o Sorted(names \ {m})

\* repo_path.name as the string detect_profile compares with ".github"
RECURSIVE NameStr(_)
NameStr(n) == IF n = <<>> THEN "" ELSE n[1] \o NameStr(Tail(n))

\* a subdirectory and the files under it
DirEntry(root) == [kind |-> "dir", root |-> root]

\* a path below a directory that may not be searched: stat() fails with EACCES
Denied == [kind |-> "denied"]

\* Path.exists() returns False on ENOENT, ENOTDIR, EBADF and ELOOP only and re-raises
\* every other OSError
ExistsRaises(root, path) == root[path].kind = "denied"

\* check_repository(item): no call of it is guarded, so an exception raised by an
\* exists() of an executor leaves it; the exists() of check_ci_workflows is the one
\* followed here
check_repository(name, root) ==
    LET prof == detect_profile(NameStr(name), root)
    IN  IF /\ CI_REQUIRED_BY_PROFILE(prof)
           /\ \E i \in 1..Len(CI_WORKFLOW_FILES) : ExistsRaises(root, CI_WORKFLOW_FILES[i])
        THEN [exc |-> "PermissionError", repo_name |-> name, profile |-> prof, checks |-> <<>>]
        ELSE [exc |-> "none", repo_name |-> name, profile |-> prof,
              checks |-> RepositoryChecks(root, prof)]

\* variant: every subdirectory is taken for a repository
IsRepositoryAnyDir(item) == item.kind = "dir"

\* item.is_dir() and (item / ".git").exists()
IsRepository(item) == item.kind = "dir" /\ Exists(item.root, GIT_DIR)

\* the loop of scan_directory; an exception leaves the function, and the caller gets
\* no list
RECURSIVE ScanFrom(_, _, _, _)
ScanFrom(entries, items, i, reports) ==
    IF i > Len(items) THEN [exc |-> "none", reports |-> reports]
    ELSE IF ~IsRepository(entries[items[i]]) THEN ScanFrom(entries, items, i + 1, reports)
    ELSE LET report == check_repository(items[i], entries[items[i]].root)
         IN  IF report.exc # "none" THEN [exc |-> report.exc, reports |-> <<>>]
             ELSE ScanFrom(entries, items, i + 1, Append(reports, report))

scan_directory(entries) ==
    ScanFrom(entries, Sorted({n \in DOMAIN entries : entries[n].kind # "absent"}), 1, <<>>)

DirNames == { <<".", "g", "i", "t", "h", "u", "b">>, <<"B">>, <<"a">>, <<"a", "b">>, <<"b">> }

GitOnlyRepo == [EmptyRepo EXCEPT ![GIT_DIR] = Directory]

UnreadableLicenseRepo == [CompliantRepo EXCEPT !["LICENSE"] = Unreadable]

DeniedWorkflowsRepo == [CompliantRepo EXCEPT ![".github/workflows/ci.yml"] = Denied]

\* what a name of the scanned directory can be: nothing, a file, a plain
\* subdirectory (empty or with files), a repository
ScanEntries ==
    {Absent, PlainFile, DirEntry(EmptyRepo), DirEntry(StaticRepo), DirEntry(GitOnlyRepo),
     DirEntry(CompliantRepo), DirEntry(UnreadableLicenseRepo), DirEntry(DeniedWorkflowsRepo)}

MaxItems == 3

InitScan ==
    /\ repo_name = "repo"
    /\ fs = EmptyRepo
    /\ pc = "scan"
    /\ edits = 0
    /\ profile = "none"
    /\ checks = <<>>
    /\ base = NoBase
    /\ v1 = <<>>
    /\ v2 = <<>>
    /\ cmp = NoCmp
    /\ dir_entries \in {e \in [DirNames -> ScanEntries] :
                          Cardinality({n \in DirNames : e[n] # Absent}) <= MaxItems}
    /\ scan = NoScan
    /\ before = NoBefore
    /\ init_log = <<>>

\* reports = scan_directory(dir_path)
ScanDirectory ==
    /\ pc = "scan"
    /\ scan' = scan_directory(dir_entries)
    /\ pc' = "scanned"
    /\ UNCHANGED <<before, init_log, repo_name, fs, edits, profile, checks, base, v1, v2, cmp, dir_entries>>

NextScan == ScanDirectory

SpecScan == InitScan /\ [][NextScan]_vars

(***************************************************************************)
(* SpecInit: init_repository, called up to MaxInits times on a repository  *)
(* that already holds some of the files.                                   *)
(***************************************************************************)

GITHUB_DIR == ".github"
WORKFLOWS_DIR == ".github/workflows"
CI_PATH == ".github/workflows/ci.yml"

\* a file told apart by what was written to it
FileOf(content) == [kind |-> "file", content |-> content]

UserFile == FileOf("user")

GITIGNORE_TEMPLATE == FileOf("GITIGNORE_TEMPLATE")
CI_WORKFLOW_TEMPLATE == FileOf("CI_WORKFLOW_TEMPLATE")
get_readme_template == FileOf("get_readme_template")
get_claude_md_template == Text(CLAUDE_BOTH)
PRECOMMIT_CONFIG_TEMPLATE == YamlRepos(TEMPLATE_REPOS)

\* the text served at TEMPLATE_URLS["LICENSE"]
TEMPLATE_LICENSE == Text(GPL3_TEXT)

\* files_created = [], files_skipped = []
StartInit(root) ==
    [fs |-> root, files_created |-> <<>>, files_skipped |-> <<>>,
     download_failed |-> FALSE, exc |-> "none"]

\* variant: the file is written whether it exists or not
CreateAlways(st, path, content) ==
    [st EXCEPT !.fs = [@ EXCEPT ![path] = content], !.files_created = Append(@, path)]

\* if not path.exists(): path.write_text(content); files_created.append(..)
\* else: files_skipped.append(..)
CreateIfMissing(st, path, content) ==
    IF Exists(st.fs, path) THEN [st EXCEPT !.files_skipped = Append(@, path)]
    ELSE [st EXCEPT !.fs = [@ EXCEPT ![path] = content], !.files_created = Append(@, path)]

\* the LICENSE block: a failed download is caught and only printed
CreateLicense(st, download_ok) ==
    IF Exists(st.fs, "LICENSE") THEN [st EXCEPT !.files_skipped = Append(@, "LICENSE")]
    ELSE IF download_ok
         THEN [st EXCEPT !.fs = [@ EXCEPT !["LICENSE"] = TEMPLATE_LICENSE],
                         !.files_created = Append(@, "LICENSE")]
    ELSE [st EXCEPT !.download_failed = TRUE]

\* the ci.yml block: workflows_dir.mkdir(parents=True, exist_ok=True) raises when
\* .github or .github/workflows exists and is not a directory, and nothing catches it
CreateWorkflow(st) ==
    IF Exists(st.fs, CI_PATH) THEN [st EXCEPT !.files_skipped = Append(@, CI_PATH)]
    ELSE IF st.fs[GITHUB_DIR].kind \notin {"absent", "dir"}
         THEN [st EXCEPT !.exc = "NotADirectoryError"]
    ELSE IF st.fs[WORKFLOWS_DIR].kind \notin {"absent", "dir"}
         THEN [st EXCEPT !.exc = "FileExistsError"]
    ELSE [st EXCEPT !.fs = [@ EXCEPT ![GITHUB_DIR] = Directory, ![WORKFLOWS_DIR] = Directory,
                                     ![CI_PATH] = CI_WORKFLOW_TEMPLATE],
                    !.files_created = Append(@, CI_PATH)]

\* the six blocks of init_repository, in order
init_repository(root, download_ok) ==
    LET s1 == CreateIfMissing(StartInit(root), ".gitignore", GITIGNORE_TEMPLATE)
        s2 == CreateLicense(s1, download_ok)
        s3 == CreateIfMissing(s2, "README.md", get_readme_template)
        s4 == CreateIfMissing(s3, "CLAUDE.md", get_claude_md_template)
        s5 == CreateIfMissing(s4, CONFIG_PATH, PRECOMMIT_CONFIG_TEMPLATE)
    IN  CreateWorkflow(s5)

InitPaths == Paths \cup {GITHUB_DIR, WORKFLOWS_DIR}

\* .github, .github/workflows and ci.yml as they can be found together
WorkflowStates ==
    { <<Absent, Absent, Absent>>, <<UserFile, Absent, Absent>>,
      <<Directory, Absent, Absent>>, <<Directory, UserFile, Absent>>,
      <<Directory, Directory, Absent>>, <<Directory, Directory, UserFile>> }

\* the repositories init_repository is called on
InitRoots ==
    { [p \in InitPaths |->
          CASE p = ".gitignore" -> g
            [] p = "LICENSE" -> l
            [] p = "README.md" -> r
            [] p = "CLAUDE.md" -> c
            [] p = CONFIG_PATH -> y
            [] p = GITHUB_DIR -> w[1]
            [] p = WORKFLOWS_DIR -> w[2]
            [] p = CI_PATH -> w[3]
            [] p = "pyproject.toml" -> UserFile
            [] OTHER -> Absent] :
        g \in {Absent, UserFile},
        l \in {Absent, Text(<<>>), Text(GPL2_TEXT), Directory},
        r \in {Absent, UserFile},
        c \in {Absent, Text(CLAUDE_NO_HEADINGS)},
        y \in {Absent, [kind |-> "yaml_empty"]},
        w \in WorkflowStates }

MaxInits == 2

InitInit ==
    /\ repo_name = "repo"
    /\ fs \in InitRoots
    /\ pc = "init"
    /\ edits = 0
    /\ profile = "none"
    /\ checks = <<>>
    /\ base = NoBase
    /\ v1 = <<>>
    /\ v2 = <<>>
    /\ cmp = NoCmp
    /\ dir_entries = NoEntries
    /\ scan = NoScan
    /\ before = NoBefore
    /\ init_log = <<>>

\* init_repository(repo_path); the download succeeds or fails
InitRepository ==
    /\ pc = "init"
    /\ Len(init_log) < MaxInits
    /\ \E download_ok \in BOOLEAN :
          LET done == init_repository(fs, download_ok)
          IN  /\ fs' = done.fs
              /\ init_log' = Append(init_log,
                                    [files_created |-> done.files_created,
                                     files_skipped |-> done.files_skipped,
                                     download_failed |-> done.download_failed,
                                     exc |-> done.exc])
    /\ before' = fs
    /\ UNCHANGED <<repo_name, pc, edits, profile, checks, base, v1, v2, cmp, dir_entries, scan>>

NextInit == InitRepository

SpecInit == InitInit /\ [][NextInit]_vars

(***************************************************************************)
(* Claims                                                                  *)
(***************************************************************************)

HasAny(files) == \E f \in files : Exists(fs, f)

\* C1: detect_profile is a total first-match-wins cascade: org_config when the
\* directory is named ".github" whatever files exist; otherwise python when one of
\* the five Python indicator files exists (even beside index.html or package.json);
\* otherwise static_site when index.html or package.json exists; otherwise
\* documentation.
C1_DetectCascade ==
    pc = "detected" =>
        /\ profile \in Profiles
        /\ profile = PROFILE_ORG_CONFIG <=> repo_name = ".github"
        /\ profile = PROFILE_PYTHON <=>
              /\ repo_name # ".github"
              /\ HasAny({"pyproject.toml", "setup.py", "setup.cfg", "requirements.txt", "Pipfile"})
        /\ profile = PROFILE_STATIC_SITE <=>
              /\ repo_name # ".github"
              /\ ~HasAny({"pyproject.toml", "setup.py", "setup.cfg", "requirements.txt", "Pipfile"})
              /\ HasAny({"index.html", "package.json"})
        /\ profile = PROFILE_DOCUMENTATION <=>
              /\ repo_name # ".github"
              /\ ~HasAny(IndicatorPaths)

\* C1 witness: a directory holding a Python indicator and a static-site indicator was
\* detected as python.
C1_Witness ==
    /\ pc = "detected"
    /\ repo_name # ".github"
    /\ Exists(fs, "requirements.txt")
    /\ Exists(fs, "package.json")
    /\ profile = PROFILE_PYTHON

FailedErrors == {i \in DOMAIN checks : checks[i].severity = "error" /\ ~checks[i].passed}

\* C2: a report is compliant exactly when no check of severity "error" has failed;
\* failing "warning" or "info" checks never matter, and a report without
\* error-severity checks (the empty one included) is compliant.
C2_CompliantIffNoFailedError ==
    pc = "report" =>
        /\ is_compliant(checks) <=> FailedErrors = {}
        /\ (\A i \in DOMAIN checks : checks[i].severity # "error") => is_compliant(checks)

\* C2 witness: a compliant report that holds a failed warning, a failed info and a
\* passed error check.
C2_Witness ==
    /\ pc = "report"
    /\ is_compliant(checks)
    /\ \E i, j, k \in DOMAIN checks :
          /\ checks[i].severity = "warning" /\ ~checks[i].passed
          /\ checks[j].severity = "info" /\ ~checks[j].passed
          /\ checks[k].severity = "error" /\ checks[k].passed

PassedIndexes == {i \in DOMAIN checks : checks[i].passed}

\* C3: passed_count + failed_count = total_count = the length of the check list,
\* every list position counting (duplicates included); score_percent is
\* passed_count / total_count * 100, 0 for the empty list, and lies in 0..100.
C3_CountsAndScore ==
    pc = "report" =>
        /\ total_count(checks) = Len(checks)
        /\ passed_count(checks) = Cardinality(PassedIndexes)
        /\ passed_count(checks) + failed_count(checks) = total_count(checks)
        /\ score_percent(checks).den > 0
        /\ IF total_count(checks) = 0
           THEN score_percent(checks).num = 0
           ELSE score_percent(checks).num * total_count(checks)
                    = passed_count(checks) * 100 * score_percent(checks).den
        /\ score_percent(checks).num >= 0
        /\ score_percent(checks).num <= 100 * score_percent(checks).den

\* C3 witness: the same passed result appended twice beside a failed one: 2 of 3.
C3_Witness ==
    /\ pc = "report"
    /\ Len(checks) = 3
    /\ checks[1] = checks[2]
    /\ checks[1].passed
    /\ ~checks[3].passed
    /\ passed_count(checks) = 2
    /\ score_percent(checks) = [num |-> 200, den |-> 3]

Reported == pc \in {"checked", "rechecked"}

\* the check family a result belongs to, read off its name: 1 RequiredFiles,
\* 2 License, 3 CI, 4 Pre-commit Config, 5 Pre-commit Installed, 6 CLAUDE.md content,
\* 7 Python Project Files
Family(c) ==
    CASE c.name[1] = "file" -> 1
      [] c.name[1] = "license" -> 2
      [] c.name[1] = "ci" -> 3
      [] c.name[1] = "precommit" /\ c.name[2] # "installed" -> 4
      [] c.name[1] = "precommit" /\ c.name[2] = "installed" -> 5
      [] c.name[1] = "git" -> 5
      [] c.name[1] = "claude_md" -> 6
      [] c.name[1] = "python" -> 7

OfFamily(cs, k) == SelectSeq(cs, LAMBDA c : Family(c) = k)

\* C4: in a report of check_repository the families appear in the fixed order
\* RequiredFiles, License, CI, Pre-commit Config, Pre-commit Installed, CLAUDE.md
\* content, Python Project Files: no result of an earlier family follows one of a
\* later family, and each family's results are in the order its executor produced.
C4_FamilyOrder ==
    Reported =>
        /\ \A i, j \in DOMAIN checks : i < j => Family(checks[i]) <= Family(checks[j])
        /\ OfFamily(checks, 1) = check_required_files(fs, profile)
        /\ OfFamily(checks, 2) = check_license(fs)
        /\ OfFamily(checks, 3) # <<>> => OfFamily(checks, 3) = check_ci_workflows(fs)
        /\ OfFamily(checks, 4) # <<>> => OfFamily(checks, 4) = check_precommit_config(fs)
        /\ OfFamily(checks, 5) # <<>> => OfFamily(checks, 5) = check_precommit_installed(fs)
        /\ OfFamily(checks, 6) = check_claude_md_content(fs, profile)
        /\ OfFamily(checks, 7) # <<>> => OfFamily(checks, 7) = check_python_project_files(fs)

\* C4 witness: a report that holds results of all seven families.
C4_Witness ==
    /\ Reported
    /\ \A k \in 1..7 : OfFamily(checks, k) # <<>>

\* C5: CI, Pre-commit Config, Pre-commit Installed and Python Project Files results
\* appear only under the python profile; under documentation and org_config the
\* report is the two RequiredFiles results (LICENSE, README.md) followed, when LICENSE
\* exists, by one License result, whatever other files are present.
C5_ProfileGatesFamilies ==
    Reported =>
        /\ \A i \in DOMAIN checks : Family(checks[i]) \in {3, 4, 5, 7} => profile = PROFILE_PYTHON
        /\ profile \in {PROFILE_DOCUMENTATION, PROFILE_ORG_CONFIG} =>
              /\ Len(checks) = 2 + (IF Exists(fs, "LICENSE") THEN 1 ELSE 0)
              /\ checks[1].name = <<"file", "LICENSE">>
              /\ checks[2].name = <<"file", "README.md">>
              /\ \A i \in DOMAIN checks : i > 2 => Family(checks[i]) = 2

\* C5 witness: a documentation-profile repository holding a pre-commit config, a
\* CLAUDE.md, the CI workflow and a pre-commit hook was reported.
C5_Witness ==
    /\ Reported
    /\ profile = PROFILE_DOCUMENTATION
    /\ Exists(fs, CONFIG_PATH)
    /\ Exists(fs, "CLAUDE.md")
    /\ Exists(fs, ".github/workflows/ci.yml")
    /\ Exists(fs, HOOK_PATH)
    /\ Exists(fs, "LICENSE")
    /\ Len(checks) = 3

\* every entry of the parsed config for a required URL lists all its required hook
\* ids, and every entry for a version-floored URL has a string rev that compares at
\* or above the minimum
ValidPrecommitConfig ==
    /\ fs[CONFIG_PATH].kind = "yaml_repos"
    /\ \A k \in 1..Len(REQUIRED_PRECOMMIT_HOOKS) :
          /\ \E i \in 1..Len(fs[CONFIG_PATH].repos) :
                fs[CONFIG_PATH].repos[i].repo = REQUIRED_PRECOMMIT_HOOKS[k].repo_url
          /\ \A i \in 1..Len(fs[CONFIG_PATH].repos) :
                fs[CONFIG_PATH].repos[i].repo = REQUIRED_PRECOMMIT_HOOKS[k].repo_url =>
                    \A h \in 1..Len(REQUIRED_PRECOMMIT_HOOKS[k].hook_ids) :
                        InSeq(REQUIRED_PRECOMMIT_HOOKS[k].hook_ids[h], fs[CONFIG_PATH].repos[i].hooks)
    /\ \A k \in 1..Len(MIN_HOOK_VERSIONS) : \A i \in 1..Len(fs[CONFIG_PATH].repos) :
          fs[CONFIG_PATH].repos[i].repo = MIN_HOOK_VERSIONS[k].repo_url =>
              /\ fs[CONFIG_PATH].repos[i].rev_is_str
              /\ _compare_versions(LStripV(fs[CONFIG_PATH].repos[i].rev),
                                   LStripV(MIN_HOOK_VERSIONS[k].min_version)).exc = "none"
              /\ _compare_versions(LStripV(fs[CONFIG_PATH].repos[i].rev),
                                   LStripV(MIN_HOOK_VERSIONS[k].min_version)).ret >= 0

\* the fixture as the specification words it: the five required files (readable), a valid
\* config, an installed pre-commit hook, the CI workflow and pyproject.toml
FixtureAsClaimed ==
    /\ \A f \in {"CLAUDE.md", "LICENSE", "README.md", CONFIG_PATH, ".gitignore"} : Exists(fs, f)
    /\ fs["LICENSE"].kind = "text"
    /\ fs["CLAUDE.md"].kind = "text"
    /\ ValidPrecommitConfig
    /\ fs[HOOK_PATH].kind = "text"
    /\ SearchLiteral(fs[HOOK_PATH].lines, <<"pre-commit">>)
    /\ Exists(fs, ".github/workflows/ci.yml")
    /\ Exists(fs, "pyproject.toml")

\* C6 as claimed: every repository with the five required files, a valid config, an
\* installed hook, the CI workflow and pyproject.toml is reported compliant with a
\* score of 100.
C6_AsClaimed ==
    (Reported /\ FixtureAsClaimed) =>
        is_compliant(checks) /\ score_percent(checks) = [num |-> 100, den |-> 1]

\* C6 amended: ... provided also that the LICENSE text is GPL-3.0 (it matches both
\* license patterns) and CLAUDE.md has a heading for each required section.
C6_CompliantFixture ==
    ( /\ Reported
      /\ FixtureAsClaimed
      /\ SearchLiteral(fs["LICENSE"].lines, <<"GNU", "GENERAL", "PUBLIC", "LICENSE">>)
      /\ SearchLiteral(fs["LICENSE"].lines, <<"Version", "3,">>)
      /\ SearchHeading(fs["CLAUDE.md"].lines, <<(<<"overview">>)>>)
      /\ SearchHeading(fs["CLAUDE.md"].lines, <<(<<"commands">>)>>) ) =>
        is_compliant(checks) /\ score_percent(checks) = [num |-> 100, den |-> 1]

\* C6 witness: the fixture with revs exactly at the minimums was reported under the
\* python profile, all 21 checks passing.
C6_Witness ==
    /\ Reported
    /\ FixtureAsClaimed
    /\ profile = PROFILE_PYTHON
    /\ \E i \in 1..Len(fs[CONFIG_PATH].repos) :
          fs[CONFIG_PATH].repos[i].repo = URL_BLACK /\ fs[CONFIG_PATH].repos[i].rev = REV_24_0_0
    /\ passed_count(checks) = Len(checks)
    /\ Len(checks) = 21

\* the repository was fully passing under the python profile, then lost one required
\* file and was reported again
RemovedFromCompliant ==
    /\ pc = "rechecked"
    /\ base.profile = PROFILE_PYTHON
    /\ passed_count(base.checks) = total_count(base.checks)
    /\ is_compliant(base.checks)

\* the family of the content checks that read a required file (0: none does)
ContentFamily(f) ==
    CASE f = "LICENSE" -> 2 [] f = CONFIG_PATH -> 4 [] f = "CLAUDE.md" -> 6 [] OTHER -> 0

\* C7 as claimed: removing one required file from the fully compliant python fixture
\* makes the report non-compliant and flips one check from passed to failed while the
\* number of checks stays the same.
C7_AsClaimed ==
    RemovedFromCompliant =>
        /\ ~is_compliant(checks)
        /\ total_count(checks) = total_count(base.checks)
        /\ passed_count(checks) = passed_count(base.checks) - 1

\* C7 amended: the report becomes non-compliant with exactly one failed check, the
\* error file:<removed>, so score_percent falls from 100 by 1/total_count*100 of the
\* new report; the results of the content checks of the removed file (License,
\* Pre-commit Config, CLAUDE.md content) are gone from it, so the number of checks
\* stays the same only for README.md and .gitignore.
C7_RemoveRequiredFile ==
    RemovedFromCompliant =>
        /\ ~is_compliant(checks)
        /\ failed_count(checks) = 1
        /\ \E i \in DOMAIN checks :
              /\ checks[i].name = <<"file", base.removed>>
              /\ ~checks[i].passed
              /\ checks[i].severity = "error"
        /\ score_percent(base.checks) = [num |-> 100, den |-> 1]
        /\ score_percent(checks) = Fraction(100 * (total_count(checks) - 1), total_count(checks))
        /\ total_count(checks) =
              total_count(base.checks) - Len(OfFamily(base.checks, ContentFamily(base.removed)))
        /\ total_count(checks) = total_count(base.checks) <=>
              base.removed \in {"README.md", ".gitignore"}

\* C7 witness: LICENSE was removed from the compliant fixture; the new report has 20
\* checks instead of 21, one of them failed.
C7_Witness ==
    /\ RemovedFromCompliant
    /\ base.removed = "LICENSE"
    /\ total_count(base.checks) = 21
    /\ total_count(checks) = 20
    /\ passed_count(checks) = 19

\* no '.'/'-'-separated token of the string consists of decimal digits
NoNumericComponent(s) ==
    \A i \in 1..Len(SplitVersion(s)) : ~IntParses(SplitVersion(s)[i])

\* C10 as claimed: when the configured rev of a version-floored URL has no parseable
\* numeric component ('abc', an empty or missing rev), no precommit:version result is
\* emitted for that URL.
C10_AsClaimed ==
    (Reported /\ fs[CONFIG_PATH].kind = "yaml_repos") =>
        \A k \in 1..Len(MIN_HOOK_VERSIONS) :
            ( /\ Configured(fs[CONFIG_PATH].repos, MIN_HOOK_VERSIONS[k].repo_url)
              /\ LastEntry(fs[CONFIG_PATH].repos, MIN_HOOK_VERSIONS[k].repo_url).rev_is_str
              /\ NoNumericComponent(
                    LStripV(LastEntry(fs[CONFIG_PATH].repos, MIN_HOOK_VERSIONS[k].repo_url).rev)) )
            => ~\E i \in DOMAIN checks :
                    checks[i].name = <<"precommit", "version", UrlTail(MIN_HOOK_VERSIONS[k].repo_url)>>

\* the integers of the tokens that are purely decimal digits, every other token ignored
DecimalParts(s) ==
    LET toks == SelectSeq(SplitVersion(s), LAMBDA t : t # <<>> /\ \A i \in 1..Len(t) : t[i] \in AsciiDigits)
    IN  [i \in 1..Len(toks) |-> IntOf(toks[i])]

\* the sign of the first position where the zero-padded sequences differ, else 0
SignOfFirstDifference(p, q) ==
    LET n == IF Len(p) >= Len(q) THEN Len(p) ELSE Len(q)
        at(s, i) == IF i <= Len(s) THEN s[i] ELSE 0
        differ == {i \in 1..n : at(p, i) # at(q, i)}
    IN  IF differ = {} THEN 0
        ELSE LET m == CHOOSE i \in differ : \A j \in differ : i <= j
             IN  IF at(p, m) < at(q, m) THEN -1 ELSE 1

\* C8 as claimed: _compare_versions always returns a value in {-1, 0, 1}, the sign of
\* the first difference between the zero-padded integer sequences of the purely
\* decimal tokens of its arguments ('1.0' and '1.0.0' compare equal).
C8_AsClaimed ==
    pc = "compared" =>
        /\ cmp.exc = "none"
        /\ cmp.ret \in {-1, 0, 1}
        /\ cmp.ret = SignOfFirstDifference(DecimalParts(v1), DecimalParts(v2))

\* the part of C8 the code does satisfy: when no token of either argument is a
\* non-decimal digit string, the call returns and its value is as claimed
C8_OnDecimalTokens ==
    (pc = "compared" /\ ~PartsRaise(v1) /\ ~PartsRaise(v2)) =>
        /\ cmp.exc = "none"
        /\ cmp.ret \in {-1, 0, 1}
        /\ cmp.ret = SignOfFirstDifference(DecimalParts(v1), DecimalParts(v2))

\* C9 as claimed: compare("24.10.0", "24.0.0") is 1, compare("0.8.0", "v0.1.0") is 1,
\* and compare("1.13.0", "v1.13.0") is 0 once a leading 'v' is stripped from both.
C9_AsClaimed ==
    /\ (pc = "compared" /\ v1 = REV_24_10_0 /\ v2 = REV_24_0_0) =>
            cmp = [exc |-> "none", ret |-> 1]
    /\ (pc = "compared" /\ v1 = V_0_8_0 /\ v2 = V_V0_1_0) =>
            cmp = [exc |-> "none", ret |-> 1]
    /\ (pc = "compared_stripped" /\ v1 = V_1_13_0 /\ v2 = V_V1_13_0) =>
            cmp = [exc |-> "none", ret |-> 0]

\* C9 amended: compare("24.10.0", "24.0.0") is 1; compare("0.8.0", "v0.1.0") is 1 only
\* once the leading 'v' is stripped, as check_precommit_config does before the call
\* (on the raw strings the token "v0" is dropped and the result is -1); and
\* compare("1.13.0", "v1.13.0") is 0 once the leading 'v' is stripped.
C9_DocumentedResults ==
    /\ (pc = "compared" /\ v1 = REV_24_10_0 /\ v2 = REV_24_0_0) =>
            cmp = [exc |-> "none", ret |-> 1]
    /\ (pc = "compared_stripped" /\ v1 = V_0_8_0 /\ v2 = V_V0_1_0) =>
            cmp = [exc |-> "none", ret |-> 1]
    /\ (pc = "compared" /\ v1 = V_0_8_0 /\ v2 = V_V0_1_0) =>
            cmp = [exc |-> "none", ret |-> -1]
    /\ (pc = "compared_stripped" /\ v1 = V_1_13_0 /\ v2 = V_V1_13_0) =>
            cmp = [exc |-> "none", ret |-> 0]

\* C9 witness: "0.8.0" was compared with "v0.1.0" the way the caller does, giving 1.
C9_Witness ==
    /\ pc = "compared_stripped"
    /\ v1 = V_0_8_0
    /\ v2 = V_V0_1_0
    /\ cmp = [exc |-> "none", ret |-> 1]

\* the number of required files the specification gives for a profile
RequiredCount(p) ==
    CASE p = PROFILE_PYTHON -> 5 [] p = PROFILE_STATIC_SITE -> 4
      [] p = PROFILE_DOCUMENTATION -> 2 [] p = PROFILE_ORG_CONFIG -> 2

\* C11: check_required_files returns exactly one result per file of the profile's
\* required list (5 for python, 4 for static_site, 2 for documentation and
\* org_config), in list order, each named file:<filename>, passed exactly when the
\* file exists at the repository root, every failing one of severity "error"; so a
\* missing required file makes the report non-compliant.
C11_RequiredFiles ==
    Reported =>
        LET req == REQUIRED_FILES_BY_PROFILE(profile)
        IN  /\ Len(req) = RequiredCount(profile)
            /\ Len(OfFamily(checks, 1)) = Len(req)
            /\ \A i \in 1..Len(req) :
                  /\ checks[i].name = <<"file", req[i]>>
                  /\ checks[i].passed <=> Exists(fs, req[i])
                  /\ ~checks[i].passed => checks[i].severity = "error"
            /\ (\E i \in 1..Len(req) : ~Exists(fs, req[i])) => ~is_compliant(checks)

\* C11 witness: a static_site report whose only failing check is the missing
\* .gitignore, the fourth of four file results.
C11_Witness ==
    /\ Reported
    /\ profile = PROFILE_STATIC_SITE
    /\ ~Exists(fs, ".gitignore")
    /\ Exists(fs, "CLAUDE.md")
    /\ Len(OfFamily(checks, 1)) = 4
    /\ checks[4] = Failed(<<"file", ".gitignore">>, "error")
    /\ failed_count(checks) = 1
    /\ ~is_compliant(checks)

\* C12: check_license emits nothing when LICENSE does not exist and otherwise exactly
\* one result; on a readable LICENSE it is license:gpl3, passing exactly when the text
\* contains both "GNU GENERAL PUBLIC LICENSE" (case-sensitive) and "Version 3,"; a
\* text matching one pattern only, or an empty file, gives a failing license:gpl3 of
\* severity "error".
C12_License ==
    Reported =>
        /\ ~Exists(fs, "LICENSE") => OfFamily(checks, 2) = <<>>
        /\ Exists(fs, "LICENSE") => Len(OfFamily(checks, 2)) = 1
        /\ fs["LICENSE"].kind = "text" =>
              LET r == OfFamily(checks, 2)[1]
                  both == /\ SearchLiteral(fs["LICENSE"].lines, <<"GNU", "GENERAL", "PUBLIC", "LICENSE">>)
                          /\ SearchLiteral(fs["LICENSE"].lines, <<"Version", "3,">>)
              IN  /\ r.name = <<"license", "gpl3">>
                  /\ r.passed <=> both
                  /\ ~r.passed => r.severity = "error"
                  /\ fs["LICENSE"].lines = <<>> => ~r.passed

\* C12 witness: a LICENSE holding the GPL heading but "Version 2," was reported as a
\* failing license:gpl3 error.
C12_Witness ==
    /\ Reported
    /\ fs["LICENSE"] = Text(GPL2_TEXT)
    /\ OfFamily(checks, 2) = << Failed(<<"license", "gpl3">>, "error") >>

\* the results of a report that carry the name
Named(cs, name) == SelectSeq(cs, LAMBDA c : c.name = name)

\* C13: for a parsed config with a repos list and each of the five required repo
\* URLs: when the URL is absent there is exactly one failing error result
\* precommit:repo:<tail> and no per-hook result for that URL; when it is present there
\* is exactly one result per required hook id of the URL, passing exactly when the id
\* is among the hooks of the entry kept for that URL (the last one when the URL
\* occurs twice) and otherwise failing with severity "error".
C13_RequiredHooks ==
    (Reported /\ profile = PROFILE_PYTHON /\ fs[CONFIG_PATH].kind = "yaml_repos") =>
        /\ Len(REQUIRED_PRECOMMIT_HOOKS) = 5
        /\ \A k \in 1..Len(REQUIRED_PRECOMMIT_HOOKS) :
              LET req == REQUIRED_PRECOMMIT_HOOKS[k]
                  missing == Named(checks, <<"precommit", "repo", UrlTail(req.repo_url)>>)
              IN  IF ~Configured(fs[CONFIG_PATH].repos, req.repo_url)
                  THEN /\ missing = << Failed(<<"precommit", "repo", UrlTail(req.repo_url)>>, "error") >>
                       /\ \A h \in 1..Len(req.hook_ids) :
                             Named(checks, <<"precommit", "hook", req.hook_ids[h]>>) = <<>>
                  ELSE /\ missing = <<>>
                       /\ \A h \in 1..Len(req.hook_ids) :
                             LET rs == Named(checks, <<"precommit", "hook", req.hook_ids[h]>>)
                             IN  /\ Len(rs) = 1
                                 /\ rs[1].passed <=>
                                       InSeq(req.hook_ids[h],
                                             LastEntry(fs[CONFIG_PATH].repos, req.repo_url).hooks)
                                 /\ ~rs[1].passed => rs[1].severity = "error"

\* C13 witness: the bandit repo is absent and check-yaml is not among the hooks of the
\* pre-commit-hooks entry, while black is configured.
C13_Witness ==
    /\ Reported
    /\ profile = PROFILE_PYTHON
    /\ fs[CONFIG_PATH].kind = "yaml_repos"
    /\ Named(checks, <<"precommit", "repo", "bandit">>) = << Failed(<<"precommit", "repo", "bandit">>, "error") >>
    /\ Named(checks, <<"precommit", "hook", "bandit">>) = <<>>
    /\ Named(checks, <<"precommit", "hook", "check-yaml">>) = << Failed(<<"precommit", "hook", "check-yaml">>, "error") >>
    /\ Named(checks, <<"precommit", "hook", "black">>) = << Passed(<<"precommit", "hook", "black">>) >>

\* C14: when .pre-commit-config.yaml exists but does not load to a mapping with a
\* "repos" key (YAML error, empty document, no "repos" key), the pre-commit
\* configuration check yields exactly one result, failing with severity "error", and
\* no hook, repo or version result appears in the report; the installed-hook check
\* that check_repository runs next still yields its one result.
C14_MalformedConfig ==
    ( /\ Reported
      /\ profile = PROFILE_PYTHON
      /\ fs[CONFIG_PATH].kind \in {"yaml_error", "yaml_empty", "yaml_no_repos"} ) =>
        /\ Len(OfFamily(checks, 4)) = 1
        /\ ~OfFamily(checks, 4)[1].passed
        /\ OfFamily(checks, 4)[1].severity = "error"
        /\ \A i \in DOMAIN checks :
              checks[i].name[1] = "precommit" => checks[i].name[2] \notin {"hook", "repo", "version"}
        /\ Len(OfFamily(checks, 5)) = 1

\* C14 witness: a config without a "repos" key gave the single result
\* precommit:valid_config, followed by a passing precommit:installed.
C14_Witness ==
    /\ Reported
    /\ profile = PROFILE_PYTHON
    /\ fs[CONFIG_PATH].kind = "yaml_no_repos"
    /\ OfFamily(checks, 4) = << Failed(<<"precommit", "valid_config">>, "error") >>
    /\ OfFamily(checks, 5) = << Passed(<<"precommit", "installed">>) >>

\* the report without its precommit:version results
WithoutVersionResults(cs) ==
    SelectSeq(cs, LAMBDA c : ~(Len(c.name) = 3 /\ c.name[1] = "precommit" /\ c.name[2] = "version"))

\* C15: for each of the two repo URLs with a minimum version (psf/black 24.0.0,
\* astral-sh/ruff-pre-commit v0.1.0) a precommit:version result is emitted only when
\* the URL is present in the config; when the comparator, called on the rev and the
\* minimum both stripped of leading 'v', returns >= 0 the result passes, when it
\* returns < 0 the result fails with severity "warning" and fix_command
\* "pre-commit autoupdate"; the version results never change is_compliant.
C15_MinimumVersions ==
    (Reported /\ profile = PROFILE_PYTHON) =>
        /\ Len(MIN_HOOK_VERSIONS) = 2
        /\ MIN_HOOK_VERSIONS[1] = [repo_url |-> URL_BLACK, min_version |-> REV_24_0_0]
        /\ MIN_HOOK_VERSIONS[2] = [repo_url |-> URL_RUFF, min_version |-> V_V0_1_0]
        /\ \A k \in 1..Len(MIN_HOOK_VERSIONS) :
              LET m == MIN_HOOK_VERSIONS[k]
                  rs == Named(checks, <<"precommit", "version", UrlTail(m.repo_url)>>)
              IN  /\ Len(rs) <= 1
                  /\ rs # <<>> =>
                        /\ fs[CONFIG_PATH].kind = "yaml_repos"
                        /\ Configured(fs[CONFIG_PATH].repos, m.repo_url)
                  /\ ( /\ fs[CONFIG_PATH].kind = "yaml_repos"
                       /\ Configured(fs[CONFIG_PATH].repos, m.repo_url)
                       /\ \A j \in 1..k :
                             Configured(fs[CONFIG_PATH].repos, MIN_HOOK_VERSIONS[j].repo_url) =>
                                LastEntry(fs[CONFIG_PATH].repos, MIN_HOOK_VERSIONS[j].repo_url).rev_is_str ) =>
                        LET c == _compare_versions(
                                    LStripV(LastEntry(fs[CONFIG_PATH].repos, m.repo_url).rev),
                                    LStripV(m.min_version))
                        IN  /\ (c.exc = "none" /\ c.ret >= 0) =>
                                  (Len(rs) = 1 /\ rs[1].passed)
                            /\ (c.exc = "none" /\ c.ret < 0) =>
                                  /\ Len(rs) = 1
                                  /\ ~rs[1].passed
                                  /\ rs[1].severity = "warning"
                                  /\ rs[1].fix_command = "pre-commit autoupdate"
        /\ is_compliant(checks) <=> is_compliant(WithoutVersionResults(checks))

\* C15 witness: ruff at v0.0.9 is below v0.1.0 and black at 24.0.0 is at its minimum:
\* one failing warning, one pass, and the report is compliant.
C15_Witness ==
    /\ Reported
    /\ profile = PROFILE_PYTHON
    /\ Named(checks, <<"precommit", "version", "ruff-pre-commit">>) =
          << CheckResult(<<"precommit", "version", "ruff-pre-commit">>, FALSE, "warning",
                         "pre-commit autoupdate") >>
    /\ Named(checks, <<"precommit", "version", "black">>) =
          << Passed(<<"precommit", "version", "black">>) >>
    /\ \E i \in 1..Len(fs[CONFIG_PATH].repos) :
          fs[CONFIG_PATH].repos[i].repo = URL_BLACK /\ fs[CONFIG_PATH].repos[i].rev = REV_24_0_0
    /\ is_compliant(checks)

Scanned == pc = "scanned"

\* the names of the immediate subdirectories that contain a .git entry
RepositoryNames ==
    {n \in DirNames : dir_entries[n].kind = "dir" /\ dir_entries[n].root[GIT_DIR].kind # "absent"}

\* C16: a scan that returns holds exactly one report for every immediate
\* subdirectory with a .git entry and none for any other entry (files and plain
\* subdirectories are skipped), the reports in lexicographic order of the
\* subdirectory names; one git repository beside one plain subdirectory gives exactly
\* one report.
C16_ScanReports ==
    (Scanned /\ scan.exc = "none") =>
        /\ Len(scan.reports) = Cardinality(RepositoryNames)
        /\ {scan.reports[i].repo_name : i \in DOMAIN scan.reports} = RepositoryNames
        /\ \A i, j \in DOMAIN scan.reports :
              i < j => NameLess(scan.reports[i].repo_name, scan.reports[j].repo_name)
        /\ \A i \in DOMAIN scan.reports :
              scan.reports[i].checks =
                  RepositoryChecks(dir_entries[scan.reports[i].repo_name].root,
                                   scan.reports[i].profile)

\* C16 witness: a directory holding the repository "ab", the plain subdirectory "a"
\* and the file "b" gave exactly one report.
C16_Witness ==
    /\ Scanned
    /\ scan.exc = "none"
    /\ RepositoryNames = { <<"a", "b">> }
    /\ dir_entries[<<"a">>] = DirEntry(StaticRepo)
    /\ dir_entries[<<"b">>] = PlainFile
    /\ Len(scan.reports) = 1
    /\ scan.reports[1].repo_name = <<"a", "b">>

\* a scan of the repositories "B" and "ab" beside the plain subdirectory "a" gave two
\* reports, "B" before "ab"
C16_SortedExample ==
    /\ Scanned
    /\ scan.exc = "none"
    /\ RepositoryNames = { <<"B">>, <<"a", "b">> }
    /\ dir_entries[<<"a">>] = DirEntry(StaticRepo)
    /\ Len(scan.reports) = 2
    /\ scan.reports[1].repo_name = <<"B">>
    /\ scan.reports[2].repo_name = <<"a", "b">>

\* C18 as claimed: no I/O failure met while one repository is checked is fatal to the
\* scan: the call returns, and every repository of the directory has its report in
\* the returned list.
C18_AsClaimed ==
    Scanned =>
        /\ scan.exc = "none"
        /\ \A n \in RepositoryNames : \E i \in DOMAIN scan.reports : scan.reports[i].repo_name = n

\* the part of C18 the code does satisfy: a file of a repository that exists but
\* cannot be read does not end the scan
C18_ReadFailuresContained ==
    ( /\ Scanned
      /\ \A n \in RepositoryNames : dir_entries[n].root # DeniedWorkflowsRepo
                                    \/ NameStr(n) = ".github" ) =>
        /\ scan.exc = "none"
        /\ \A n \in RepositoryNames : \E i \in DOMAIN scan.reports : scan.reports[i].repo_name = n

\* the family holds one result only, a failed one of the severity
SingleFailure(k, severity) ==
    /\ Len(OfFamily(checks, k)) = 1
    /\ ~OfFamily(checks, k)[1].passed
    /\ OfFamily(checks, k)[1].severity = severity

C19_PrecommitInstalled ==
    (Reported /\ profile = PROFILE_PYTHON) =>
        /\ Len(OfFamily(checks, 5)) = 1
        /\ LET r == OfFamily(checks, 5)[1]
           IN  /\ ~Exists(fs, GIT_DIR) => r = Failed(<<"git", "repository">>, "warning")
               /\ (Exists(fs, GIT_DIR) /\ ~Exists(fs, HOOK_PATH)) =>
                     r = CheckResult(<<"precommit", "installed">>, FALSE, "error", "pre-commit install")
               /\ (Exists(fs, GIT_DIR) /\ fs[HOOK_PATH].kind = "text") =>
                     IF \E l \in 1..Len(fs[HOOK_PATH].lines) : \E w \in 1..Len(fs[HOOK_PATH].lines[l]) :
                            fs[HOOK_PATH].lines[l][w] = "pre-commit"
                     THEN r = Passed(<<"precommit", "installed">>)
                     ELSE r = Failed(<<"precommit", "installed">>, "warning")
               /\ (~r.passed /\ r.severity = "error") <=>
                     (Exists(fs, GIT_DIR) /\ ~Exists(fs, HOOK_PATH))

\* C19 witness: a foreign hook occupies .git/hooks/pre-commit: one failing warning,
\* and the report is compliant.
C19_Witness ==
    /\ Reported
    /\ profile = PROFILE_PYTHON
    /\ fs[HOOK_PATH] = Text(HOOK_FOREIGN)
    /\ OfFamily(checks, 5) = << Failed(<<"precommit", "installed">>, "warning") >>
    /\ is_compliant(checks)

\* the number of required CLAUDE.md sections the specification gives for a profile
SectionCount(p) ==
    CASE p = PROFILE_PYTHON -> 2 [] p = PROFILE_STATIC_SITE -> 1 [] OTHER -> 0

\* the report without the results of the CLAUDE.md content check
WithoutClaudeResults(cs) == SelectSeq(cs, LAMBDA c : Family(c) # 6)

\* C20 as claimed: check_claude_md_content emits results only when CLAUDE.md exists
\* and the profile has required sections (python 2, static_site 1); it then emits
\* exactly one result per required section; every failing result is a warning, so
\* the content of CLAUDE.md never changes is_compliant.
C20_AsClaimed ==
    Reported =>
        /\ OfFamily(checks, 6) # <<>> => (Exists(fs, "CLAUDE.md") /\ SectionCount(profile) > 0)
        /\ (Exists(fs, "CLAUDE.md") /\ SectionCount(profile) > 0) =>
              Len(OfFamily(checks, 6)) = SectionCount(profile)
        /\ \A i \in DOMAIN checks :
              (Family(checks[i]) = 6 /\ ~checks[i].passed) => checks[i].severity = "warning"
        /\ is_compliant(checks) <=> is_compliant(WithoutClaudeResults(checks))

\* C20 amended: ... it then emits exactly one result per required section when
\* CLAUDE.md can be read (claude_md:project_overview, then claude_md:common_commands
\* for python) and the single failing result claude_md:readable when it cannot;
\* every failing result is a warning, so CLAUDE.md never changes is_compliant.
C20_ClaudeMdContent ==
    Reported =>
        /\ OfFamily(checks, 6) # <<>> => (Exists(fs, "CLAUDE.md") /\ SectionCount(profile) > 0)
        /\ (fs["CLAUDE.md"].kind = "text" /\ SectionCount(profile) > 0) =>
              /\ Len(OfFamily(checks, 6)) = SectionCount(profile)
              /\ OfFamily(checks, 6)[1].name = <<"claude_md", "project_overview">>
              /\ profile = PROFILE_PYTHON =>
                    OfFamily(checks, 6)[2].name = <<"claude_md", "common_commands">>
        /\ (fs["CLAUDE.md"].kind = "unreadable" /\ SectionCount(profile) > 0) =>
              OfFamily(checks, 6) = << Failed(<<"claude_md", "readable">>, "warning") >>
        /\ \A i \in DOMAIN checks :
              (Family(checks[i]) = 6 /\ ~checks[i].passed) => checks[i].severity = "warning"
        /\ is_compliant(checks) <=> is_compliant(WithoutClaudeResults(checks))

\* C20 witness: a python repository whose CLAUDE.md has the overview heading only:
\* one pass, one failing warning, and the report is compliant with a score below 100.
C20_Witness ==
    /\ Reported
    /\ profile = PROFILE_PYTHON
    /\ fs["CLAUDE.md"] = Text(CLAUDE_OVERVIEW_ONLY)
    /\ OfFamily(checks, 6) = << Passed(<<"claude_md", "project_overview">>),
                                Failed(<<"claude_md", "common_commands">>, "warning") >>
    /\ is_compliant(checks)
    /\ score_percent(checks) # [num |-> 100, den |-> 1]

\* C21: under the python profile the Python Project Files check emits exactly one
\* result: a plain pass when pyproject.toml exists; otherwise a pass of severity
\* "warning" when setup.py exists; otherwise a failing "error". So a repository that
\* is python through setup.cfg, requirements.txt or Pipfile only is never compliant.
C21_PythonProjectFiles ==
    (Reported /\ profile = PROFILE_PYTHON) =>
        /\ Len(OfFamily(checks, 7)) = 1
        /\ checks[Len(checks)] = OfFamily(checks, 7)[1]
        /\ LET r == OfFamily(checks, 7)[1]
           IN  /\ Exists(fs, "pyproject.toml") =>
                     r = CheckResult(<<"python", "pyproject.toml">>, TRUE, "error", NoFix)
               /\ (~Exists(fs, "pyproject.toml") /\ Exists(fs, "setup.py")) =>
                     r = CheckResult(<<"python", "setup.py">>, TRUE, "warning", NoFix)
               /\ (~Exists(fs, "pyproject.toml") /\ ~Exists(fs, "setup.py")) =>
                     /\ r = CheckResult(<<"python", "project_config">>, FALSE, "error", NoFix)
                     /\ ~is_compliant(checks)

\* C21 witness: the compliant fixture with pyproject.toml replaced by
\* requirements.txt is still python, and its only failed check is
\* python:project_config.
C21_Witness ==
    /\ Reported
    /\ profile = PROFILE_PYTHON
    /\ ~Exists(fs, "pyproject.toml")
    /\ ~Exists(fs, "setup.py")
    /\ Exists(fs, "requirements.txt")
    /\ failed_count(checks) = 1
    /\ checks[Len(checks)] = Failed(<<"python", "project_config">>, "error")
    /\ ~is_compliant(checks)

\* a setup.py-only project passes with the severity "warning" on the result
C21_SetupPyExample ==
    /\ Reported
    /\ profile = PROFILE_PYTHON
    /\ ~Exists(fs, "pyproject.toml")
    /\ Exists(fs, "setup.py")
    /\ is_compliant(checks)

Initialized == pc = "init" /\ init_log # <<>>

LastInit == init_log[Len(init_log)]

InitTargets == {".gitignore", "LICENSE", "README.md", "CLAUDE.md", CONFIG_PATH, CI_PATH}

\* the first of two calls created or found every target: no failed download, no
\* exception
FirstRunSuccessful ==
    /\ Len(init_log) = 2
    /\ ~init_log[1].download_failed
    /\ init_log[1].exc = "none"

====
